---- MODULE Spec2Model ----
(***************************************************************************)
(* Model of the two detector backends of doods:                            *)
(*   detector/tflite/detector.go   (package tflite)                        *)
(*   unnamed/part_000              (package tensorflow)                    *)
(* New builds a pool (a buffered channel) of interpreter/session handles,  *)
(* Detect checks a handle out, runs the inference and puts it back in a    *)
(* deferred function, Shutdown closes the channel and deletes the handles  *)
(* it can still receive.                                                   *)
(***************************************************************************)
EXTENDS Integers, Sequences, FiniteSets, TLC

\* ---------------------------------------------------------------- bounds
MaxConcurrent == 2      \* largest configured c.NumConcurrent
MaxDevices == 2         \* largest number of edgetpu devices DeviceList returns
NumCalls == 2           \* number of concurrent Detect calls
MaxCount == 2           \* largest candidate count a worker reports

\* 30 * time.Second, the timeout New enforces for edgetpu devices
DefaultTimeout == 30

Procs == 1..NumCalls
Nil == 0                                   \* the nil handle
MaxHandles == IF MaxConcurrent > MaxDevices THEN MaxConcurrent ELSE MaxDevices
Handles == 1..MaxHandles

VARIABLES
    cfg,            \* the *dconfig.DetectorConfig given to New, and the environment New reads
    numConcurrent,  \* c.NumConcurrent (New overwrites it for edgetpu)
    timeout,        \* d.timeout
    poolCap,        \* capacity of d.pool, fixed by make()
    pool,           \* d.pool: the buffered handles, oldest first
    poolClosed,     \* close(d.pool) has run
    newPc,          \* position of New
    x,              \* loop variable of New's pool loop
    interpreter,    \* New's local variable: the handle created last (Nil before)
    hstate,         \* per handle: "none" (not created), "live", "deleted"
    deletes,        \* per handle: number of Delete()/Close() calls on it
    shutPc,         \* position of Shutdown
    pc,             \* per Detect call: its position
    held,           \* per Detect call: its local interpreter/sess (-1: not received yet)
    inv,            \* per Detect call: its Invoke/Run: "none", "running", "hung" (running,
                    \* and it will never return), or the status it returned: "OK", "Error"
    response,       \* per Detect call: what Detect gave its caller
    stopCount,      \* conf.Stop: the wait group counter
    stopRequested,  \* conf.Stop.Stop() has been called
    mapIn,          \* inputs of one run of the result loop of Detect
    mapOut,         \* detections that loop built ("none" before it ran)
    labelFile,      \* the lines of c.LabelFile, each a sequence of words
    labels,         \* d.labels as the label loop of New built it
    reqImage,       \* request.Data of one tensorflow Detect: what the codecs make of it
    converted,      \* what the decode part of the tensorflow Detect came to
    channel,        \* one of r, g, b of col.RGBA() in the re-packing loop
    packed          \* the byte the loop stored for it

poolVars == <<poolCap, pool, poolClosed>>
newVars == <<numConcurrent, timeout, newPc, x, interpreter>>
handleVars == <<hstate, deletes>>
callVars == <<pc, held, inv, response>>
stopVars == <<stopCount, stopRequested>>
mapVars == <<mapIn, mapOut, labelFile, labels, reqImage, converted, channel, packed>>
vars == <<cfg, poolVars, newVars, handleVars, shutPc, callVars, stopVars, mapVars>>

\* ------------------------------------------------ result loop of Detect
\* Scores are raw fractions in thousandths (500 is 0.5), thresholds are on the
\* 0..100 scale of request.Detect, box values are in hundredths (100 is 1.0).

\* d.labels[int(classes[i])]: a missing index gives Go's zero value, the empty string
LabelOf(table, class) == IF class \in DOMAIN table THEN table[class] ELSE ""

\* variant of Below with the boundary excluded (<= for <)
BelowLE(score, threshold) == score * 100 <= threshold * 1000
\* scores[i]*100.0 < score, both sides brought to thousandths of a point
Below(score, threshold) == score * 100 < threshold * 1000

\* variant of Keeps that consults the wildcard entry before the exact one
KeepsWildcardFirst(detect, label, score) ==
    IF "*" \in DOMAIN detect THEN ~Below(score, detect["*"])
    ELSE IF label \in DOMAIN detect THEN ~Below(score, detect[label])
    ELSE DOMAIN detect = {}
\* variant of Keeps that lets a label with no applicable entry pass
KeepsUnlisted(detect, label, score) ==
    IF label \in DOMAIN detect THEN ~Below(score, detect[label])
    ELSE IF "*" \in DOMAIN detect THEN ~Below(score, detect["*"])
    ELSE TRUE
\* the if / else-if chain that decides whether candidate i reaches the append
Keeps(detect, label, score) ==
    IF label \in DOMAIN detect THEN ~Below(score, detect[label])
    ELSE IF "*" \in DOMAIN detect THEN ~Below(score, detect["*"])
    ELSE DOMAIN detect = {}

\* Confidence: scores[i] * 100.0, in thousandths of a point
Confidence(score) == score * 100

\* int32(f): Go's float to integer conversion truncates toward zero
Trunc(n, d) == IF n >= 0 THEN n \div d ELSE -((-n) \div d)

\* tflite: the box copied from locations[], then "Cleanup the bounds"
TfliteDetection(c, table) ==
    [Top        |-> IF c.box[1] < 0 THEN 0 ELSE c.box[1],
     Left       |-> IF c.box[2] < 0 THEN 0 ELSE c.box[2],
     Bottom     |-> IF c.box[3] > 100 THEN 100 ELSE c.box[3],
     Right      |-> IF c.box[4] > 100 THEN 100 ELSE c.box[4],
     Label      |-> LabelOf(table, c.class),
     Confidence |-> Confidence(c.score)]

\* tensorflow: the box scaled by imgConfig and converted to int32, then cleaned up
TensorflowDetection(c, table, height, width) ==
    LET y1 == Trunc(c.box[1] * height, 100)
        x1 == Trunc(c.box[2] * width, 100)
        y2 == Trunc(c.box[3] * height, 100)
        x2 == Trunc(c.box[4] * width, 100)
    IN  [Y1         |-> IF y1 < 0 THEN 0 ELSE y1,
         X1         |-> IF x1 < 0 THEN 0 ELSE x1,
         Y2         |-> IF y2 > height THEN height ELSE y2,
         X2         |-> IF x2 > width THEN width ELSE x2,
         Label      |-> LabelOf(table, c.class),
         Confidence |-> Confidence(c.score)]

DetectionOf(in, c) ==
    IF in.kind = "tflite" THEN TfliteDetection(c, in.labels)
    ELSE TensorflowDetection(c, in.labels, in.height, in.width)

\* variant of Appended that puts the new detection in front
AppendedSwapped(in, c, detections) ==
    IF Keeps(in.detect, LabelOf(in.labels, c.class), c.score)
    THEN <<DetectionOf(in, c)>> \o detections
    ELSE detections
\* what one iteration of the loop appends to detections
Appended(in, c, detections) ==
    IF Keeps(in.detect, LabelOf(in.labels, c.class), c.score)
    THEN Append(detections, DetectionOf(in, c))
    ELSE detections

\* for i := 0; i < count; i++ { ... }: detections after the first n candidates
RECURSIVE LoopUpTo(_, _)
LoopUpTo(in, n) ==
    IF n = 0 THEN <<>> ELSE Appended(in, in.batch[n], LoopUpTo(in, n - 1))

MapDetections(in) == LoopUpTo(in, Len(in.batch))

\* ------------------------------------------------------------------ New
\* The configurations New is called with.  devices is what edgetpu.DeviceList()
\* finds: -1 when it returns an error, else the number of devices.  The
\* tensorflow backend reads neither HWAccel nor Timeout.
Configs ==
    { c \in [kind : {"tflite"}, numConcurrent : 0..MaxConcurrent, hwAccel : BOOLEAN,
             timeout : {0, 1}, devices : -1..MaxDevices, inputUInt8 : BOOLEAN] :
        ~c.hwAccel => c.devices = 0 }
    \cup
    [kind : {"tensorflow"}, numConcurrent : 0..MaxConcurrent, hwAccel : {FALSE},
     timeout : {0}, devices : {0}, inputUInt8 : {TRUE}]

\* ------------------------------------------------ label loop of New
\* A line of the label file is the sequence of its words, which single spaces
\* separate: <<"1", "cat">> is the line "1 cat", <<"dog">> the line "dog".
\* The lines used here have one or two words.
MaxLines == 3

\* strconv.Atoi on the words used here: defined on the decimal numbers only
Atoi == [w \in {"1", "2", "3"} |-> IF w = "1" THEN 1 ELSE IF w = "2" THEN 2 ELSE 3]

\* strings.SplitAfterN(text, " ", 2): the text itself when it holds no space,
\* else what ends at the first space and what follows it
SplitAfterN(text) ==
    IF Len(text) = 1 THEN <<text[1]>> ELSE <<text[1], text[2]>>

\* d.labels[k] = v
Put(table, k, v) ==
    [i \in DOMAIN table \cup {k} |-> IF i = k THEN v ELSE table[i]]

\* variant of LabelLine that gives a bare label the index after the entries so far
LabelLineNextFree(table, n, text) ==
    LET fields == SplitAfterN(text)
    IN  IF Len(fields) = 1 THEN Put(table, Cardinality(DOMAIN table) + 1, fields[1])
        ELSE IF fields[1] \in DOMAIN Atoi THEN Put(table, Atoi[fields[1]], fields[2])
        ELSE table
\* the body of the label loop on line number n (the loop's x)
LabelLine(table, n, text) ==
    LET fields == SplitAfterN(text)
    IN  IF Len(fields) = 1 THEN Put(table, n, fields[1])
        ELSE IF fields[1] \in DOMAIN Atoi THEN Put(table, Atoi[fields[1]], fields[2])
        ELSE table

\* for x := 1; scanner.Scan(); x++ { ... }: d.labels after the first n lines
RECURSIVE LabelsUpTo(_, _)
LabelsUpTo(file, n) ==
    IF n = 0 THEN [i \in {} |-> ""]
    ELSE LabelLine(LabelsUpTo(file, n - 1), n, file[n])

LoadLabels(file) == LabelsUpTo(file, Len(file))

NoLabels == [done |-> FALSE, table |-> [i \in {} |-> ""]]

\* "Enforce a timeout for edgetpu devices if not set"
EffectiveTimeout(hwAccel, t) == IF hwAccel /\ t = 0 THEN DefaultTimeout ELSE t

\* the capacity make(chan, c.NumConcurrent) gives the pool: New makes the channel
\* before it replaces c.NumConcurrent by the number of devices
PoolCapacity(c) == c.numConcurrent

\* New up to the pool loop: the detector struct, the model, the labels, the devices
NewSetup ==
    /\ newPc = "start"
    /\ poolCap' = PoolCapacity(cfg)
    /\ \E loaded \in BOOLEAN :
        IF ~loaded
        THEN \* the model or the label file could not be loaded
             newPc' = "failed" /\ UNCHANGED <<numConcurrent, timeout, labels>>
        ELSE /\ labels' = [done |-> TRUE, table |-> LoadLabels(labelFile)]
             /\ IF cfg.kind = "tflite" /\ cfg.hwAccel
                THEN IF cfg.devices <= 0
                     THEN newPc' = "failed" /\ UNCHANGED <<numConcurrent, timeout>>
                     ELSE /\ numConcurrent' = cfg.devices
                          /\ timeout' = EffectiveTimeout(cfg.hwAccel, timeout)
                          /\ newPc' = "loop"
                ELSE newPc' = "loop" /\ UNCHANGED <<numConcurrent, timeout>>
    /\ UNCHANGED <<cfg, pool, poolClosed, x, interpreter, handleVars, shutPc,
                   callVars, stopVars, mapIn, mapOut, labelFile, reqImage, converted,
                   channel, packed>>

\* one pass of the pool loop up to the send: d.newInterpreter / tf.NewSession
NewInterpreter ==
    /\ newPc = "loop"
    /\ x < numConcurrent
    /\ \E created \in BOOLEAN :
        IF created
        THEN /\ interpreter' = x + 1
             /\ hstate' = [hstate EXCEPT ![x + 1] = "live"]
             /\ newPc' = "send"
        ELSE \* return nil, err
             newPc' = "failed" /\ UNCHANGED <<interpreter, hstate>>
    /\ UNCHANGED <<cfg, poolVars, numConcurrent, timeout, x, deletes, shutPc,
                   callVars, stopVars, mapVars>>

\* d.pool <- interpreter in New: blocks while the channel is full
NewSend ==
    /\ newPc = "send"
    /\ Len(pool) < poolCap
    /\ pool' = Append(pool, interpreter)
    /\ x' = x + 1
    /\ newPc' = "loop"
    /\ UNCHANGED <<cfg, poolCap, poolClosed, numConcurrent, timeout, interpreter,
                   handleVars, shutPc, callVars, stopVars, mapVars>>

\* after the loop: tflite reads the input tensor of the last interpreter (a nil
\* pointer when the loop never ran) and rejects a type other than UInt8
NewFinish ==
    /\ newPc = "loop"
    /\ x >= numConcurrent
    /\ newPc' = IF cfg.kind = "tensorflow" THEN "done"
                ELSE IF interpreter = Nil THEN "panic"
                ELSE IF ~cfg.inputUInt8 THEN "failed"
                ELSE "done"
    /\ UNCHANGED <<cfg, poolVars, numConcurrent, timeout, x, interpreter,
                   handleVars, shutPc, callVars, stopVars, mapVars>>

\* ------------------------------------------------------------- Shutdown
\* close(d.pool)
ShutdownClose ==
    /\ newPc = "done"
    /\ shutPc = "idle"
    /\ poolClosed' = TRUE
    /\ shutPc' = "drain"
    /\ UNCHANGED <<cfg, poolCap, pool, newVars, handleVars, callVars, stopVars, mapVars>>

\* one pass of Shutdown's loop: a receive from the closed channel gives the
\* buffered handles first and nil once it is empty
ShutdownReceive ==
    /\ shutPc = "drain"
    /\ IF pool /= <<>>
       THEN /\ pool' = Tail(pool)
            /\ hstate' = [hstate EXCEPT ![Head(pool)] = "deleted"]
            /\ deletes' = [deletes EXCEPT ![Head(pool)] = @ + 1]
            /\ UNCHANGED shutPc
       ELSE /\ shutPc' = "done"
            /\ UNCHANGED <<pool, hstate, deletes>>
    /\ UNCHANGED <<cfg, poolCap, poolClosed, newVars, callVars, stopVars, mapVars>>

\* --------------------------------------------------------------- Detect
NoResponse == [code |-> "none", detections |-> <<>>]
Failure(code) == [code |-> code, detections |-> <<>>]

\* what the concurrent model lets a request and the worker's output tensors be
CallInputs ==
    [kind : {cfg.kind},
     labels : {labels.table},
     detect : {[k \in {} |-> 0]},
     batch : {<<>>, <<[box |-> <<10, 20, 90, 80>>, class |-> 1, score |-> 400]>>},
     height : {50}, width : {80}]

\* interpreter := <-d.pool: a buffered handle, or nil at once from a closed and
\* empty channel; blocks on an open and empty one
CanReceive == pool /= <<>> \/ poolClosed
Received == IF pool /= <<>> THEN Head(pool) ELSE Nil
\* variant of AfterReceive that leaves the handle in the channel
AfterReceivePeek(ch) == ch
AfterReceive(ch) == IF ch /= <<>> THEN Tail(ch) ELSE ch

\* variant of AfterSend that sends the handle twice
AfterSendTwice(ch, h) == Append(Append(ch, h), h)
\* d.pool <- interpreter of the deferred function
AfterSend(ch, h) == Append(ch, h)

\* ------------------------------------------------ re-packing loop of Detect
\* col.RGBA() returns each channel as a uint32 in the 16-bit range
ChannelValues == 0..65535

\* float64(r) / 255.0 truncated toward zero: r is not negative, and a quotient
\* that is not whole is at least 1/255 away from the next whole number, so the
\* float64 rounding does not change the whole part
Quotient(v) == v \div 255

\* byte(f) of a float64 with whole part q: q itself when a uint8 can hold it;
\* otherwise the result depends on the implementation: the low 8 bits of the
\* integer conversion (amd64, arm64) or the saturated value
ByteOf(q) == IF q \in 0..255 THEN {q} ELSE {q % 256, 255}

\* conf.Stop, the barrier of the process: Add(1) and Done() count the operations
\* in flight, Stop() asks for the teardown and returns
StopAdd(n) == n + 1
StopDone(n) == n - 1

\* tflite, before the pool is touched: FindPPMData or image.Decode, resize, re-pack
DetectNormalize(p) ==
    /\ cfg.kind = "tflite"
    /\ newPc = "done"
    /\ pc[p] = "idle"
    /\ \E decoded \in BOOLEAN :
        IF decoded
        THEN pc' = [pc EXCEPT ![p] = "acquire"] /\ UNCHANGED response
        ELSE /\ pc' = [pc EXCEPT ![p] = "returned"]
             /\ response' = [response EXCEPT ![p] = Failure("InvalidArgument")]
    /\ UNCHANGED <<cfg, poolVars, newVars, handleVars, shutPc, held, inv,
                   stopVars, mapVars>>

\* "Get an interpreter from the pool": the receive, conf.Stop.Add(1) and the defer
\* (tflite); sess := <-d.pool and the defer, first thing in Detect (tensorflow)
DetectAcquire(p) ==
    /\ newPc = "done"
    /\ pc[p] = IF cfg.kind = "tflite" THEN "acquire" ELSE "idle"
    /\ CanReceive
    /\ held' = [held EXCEPT ![p] = Received]
    /\ pool' = AfterReceive(pool)
    /\ stopCount' = IF cfg.kind = "tflite" THEN StopAdd(stopCount) ELSE stopCount
    /\ pc' = [pc EXCEPT ![p] = IF cfg.kind = "tflite" THEN "load" ELSE "decode"]
    /\ UNCHANGED <<cfg, poolCap, poolClosed, newVars, handleVars, shutPc, inv,
                   response, stopRequested, mapVars>>

\* variant of WaitPc without the test d.timeout > 0
WaitPcNoGuard(t) == "wait"
\* with a timeout Detect waits in the select, without one at the final <-complete
WaitPc(t) == IF t > 0 THEN "wait" ELSE "join"

\* tflite: GetInputTensor(0).CopyFromBuffer(data), then go func() { Invoke }.
\* A nil interpreter panics here and the deferred function runs.
DetectLoad(p) ==
    /\ pc[p] = "load"
    /\ IF held[p] = Nil
       THEN /\ pc' = [pc EXCEPT ![p] = "release"]
            /\ response' = [response EXCEPT ![p] = Failure("panic")]
            /\ UNCHANGED inv
       ELSE /\ pc' = [pc EXCEPT ![p] = WaitPc(timeout)]
            /\ \E hangs \in BOOLEAN :
                 inv' = [inv EXCEPT ![p] = IF hangs THEN "hung" ELSE "running"]
            /\ UNCHANGED response
    /\ UNCHANGED <<cfg, poolVars, newVars, handleVars, shutPc, held, stopVars, mapVars>>

\* the goroutine: invokeStatus = interpreter.Invoke(); close(complete)
InvokeReturn(p) ==
    /\ inv[p] = "running"
    /\ \E status \in {"OK", "Error"} : inv' = [inv EXCEPT ![p] = status]
    /\ UNCHANGED <<cfg, poolVars, newVars, handleVars, shutPc, pc, held, response,
                   stopVars, mapVars>>

\* variant of PcAfterTimeout without the return: falls through to <-complete
PcAfterTimeoutNoReturn == "join"
\* where the timeout case leaves Detect: its return runs the deferred function
PcAfterTimeout == "release"
\* case <-time.After(d.timeout): the timer wins the select while Invoke is still
\* running; conf.Stop.Stop() (taken to return without waiting) and
\* return nil, status.Errorf(codes.Internal, ...)
DetectTimeout(p) ==
    /\ pc[p] = "wait"
    /\ inv[p] \in {"running", "hung"}
    /\ stopRequested' = TRUE
    /\ response' = [response EXCEPT ![p] = Failure("Internal")]
    /\ pc' = [pc EXCEPT ![p] = PcAfterTimeout]
    /\ UNCHANGED <<cfg, poolVars, newVars, handleVars, shutPc, held, inv,
                   stopCount, mapVars>>

\* tflite "Parse results" when complete is closed (case <-complete and the final
\* <-complete): invokeStatus is not read; a count of 0 makes &locations[0] an
\* index out of range
TfliteResponse(in) ==
    IF in.batch = <<>> THEN Failure("panic")
    ELSE [code |-> "OK", detections |-> MapDetections(in)]
\* "Parse results" of either backend: tensorflow reads the tensors' values and
\* takes the count from len(probabilities)
ParseResults(in) ==
    IF in.kind = "tflite" THEN TfliteResponse(in)
    ELSE [code |-> "OK", detections |-> MapDetections(in)]

DetectParse(p) ==
    /\ pc[p] \in {"wait", "join"}
    /\ inv[p] \in {"OK", "Error"}
    /\ \E in \in CallInputs :
         response' = [response EXCEPT ![p] = TfliteResponse(in)]
    /\ pc' = [pc EXCEPT ![p] = "release"]
    /\ UNCHANGED <<cfg, poolVars, newVars, handleVars, shutPc, held, inv,
                   stopVars, mapVars>>

\* What the collaborators make of request.Data: config is what image.DecodeConfig
\* reports, "error" or the name of a registered format (image/jpeg registers
\* "jpeg"; "tiff" stands for a registered format outside the four); imDecode and
\* imEncode are whether gocv.IMDecode and gocv.IMEncode succeed; newTensor and
\* run whether tf.NewTensor and the decode session succeed.
Images ==
    [config : {"error", "png", "gif", "jpeg", "bmp", "tiff"},
     imDecode : BOOLEAN, imEncode : BOOLEAN, newTensor : BOOLEAN, run : BOOLEAN]

\* switch imgType: the decode op the graph gets ("none": no case matches)
DecodeOp(imgType) ==
    IF imgType = "gif" THEN "DecodeGif"
    ELSE IF imgType = "jpg" THEN "DecodeJpeg"
    ELSE IF imgType = "png" THEN "DecodePng"
    ELSE IF imgType = "bmp" THEN "DecodeBmp"
    ELSE "none"

\* tf.NewTensor, tf.NewSession and imgSess.Run on the bytes of type imgType
DecodeGraph(img, imgType, fallback) ==
    IF ~img.newTensor
    THEN [error |-> "could not create input tensor", fallback |-> fallback, op |-> "none"]
    ELSE IF ~img.run
    THEN [error |-> "error converting image", fallback |-> fallback, op |-> "none"]
    ELSE [error |-> "", fallback |-> fallback, op |-> DecodeOp(imgType)]

\* "Determine the image type", "If the image is not a supported type, convert it
\* to bmp", then the decode graph; fallback is whether gocv.IMDecode was called
Convert(img) ==
    IF img.config = "error"
    THEN [error |-> "Could not decode image", fallback |-> FALSE, op |-> "none"]
    ELSE IF img.config \notin {"png", "gif", "jpg", "bmp"}
    THEN IF ~img.imDecode
         THEN [error |-> "Could not decode image", fallback |-> TRUE, op |-> "none"]
         ELSE IF ~img.imEncode
         THEN [error |-> "error encoding bmp", fallback |-> TRUE, op |-> "none"]
         ELSE DecodeGraph(img, "bmp", TRUE)
    ELSE DecodeGraph(img, img.config, FALSE)

\* tensorflow: image.DecodeConfig, the gocv conversion, the decode graph
TfDecode(p) ==
    /\ pc[p] = "decode"
    /\ \E img \in Images :
        IF Convert(img).error = ""
        THEN pc' = [pc EXCEPT ![p] = "run"] /\ UNCHANGED response
        ELSE /\ pc' = [pc EXCEPT ![p] = "release"]
             /\ response' = [response EXCEPT ![p] = Failure("Error")]
    /\ UNCHANGED <<cfg, poolVars, newVars, handleVars, shutPc, held, inv,
                   stopVars, mapVars>>

\* tensorflow: sess.Run and the result loop; Run on a nil session panics
TfRun(p) ==
    /\ pc[p] = "run"
    /\ IF held[p] = Nil
       THEN /\ response' = [response EXCEPT ![p] = Failure("panic")]
            /\ UNCHANGED inv
       ELSE \E status \in {"OK", "Error"} :
            /\ inv' = [inv EXCEPT ![p] = status]
            /\ IF status = "Error"
               THEN response' = [response EXCEPT ![p] = Failure("Error")]
               ELSE \E in \in CallInputs :
                      response' = [response EXCEPT ![p] = ParseResults(in)]
    /\ pc' = [pc EXCEPT ![p] = "release"]
    /\ UNCHANGED <<cfg, poolVars, newVars, handleVars, shutPc, held, stopVars, mapVars>>

\* the deferred function: d.pool <- interpreter, then conf.Stop.Done() (tflite).
\* A send on a closed channel panics, and the rest of the function is skipped.
DetectRelease(p) ==
    /\ pc[p] = "release"
    /\ IF poolClosed
       THEN /\ response' = [response EXCEPT ![p] = Failure("panic")]
            /\ UNCHANGED <<pool, stopCount>>
       ELSE /\ Len(pool) < poolCap
            /\ pool' = AfterSend(pool, held[p])
            /\ stopCount' = IF cfg.kind = "tflite" THEN StopDone(stopCount) ELSE stopCount
            /\ UNCHANGED response
    /\ pc' = [pc EXCEPT ![p] = "returned"]
    /\ UNCHANGED <<cfg, poolCap, poolClosed, newVars, handleVars, shutPc, held, inv,
                   stopRequested, mapVars>>

\* ------------------------------------------------------- specifications
IdleMapIn ==
    [kind |-> "tflite", labels |-> [i \in {} |-> ""], detect |-> [k \in {} |-> 0],
     batch |-> <<>>, height |-> 0, width |-> 0]
NoMapOut == [done |-> FALSE, code |-> "none", detections |-> <<>>]
IdleImage ==
    [config |-> "error", imDecode |-> FALSE, imEncode |-> FALSE,
     newTensor |-> FALSE, run |-> FALSE]
NotConverted == [done |-> FALSE, error |-> "", fallback |-> FALSE, op |-> "none"]
NotPacked == [done |-> FALSE, quotient |-> 0, value |-> 0]

Init ==
    /\ cfg \in Configs
    /\ numConcurrent = cfg.numConcurrent
    /\ timeout = cfg.timeout
    /\ poolCap = 0
    /\ pool = <<>>
    /\ poolClosed = FALSE
    /\ newPc = "start"
    /\ x = 0
    /\ interpreter = Nil
    /\ hstate = [h \in Handles |-> "none"]
    /\ deletes = [h \in Handles |-> 0]
    /\ shutPc = "idle"
    /\ pc = [p \in Procs |-> "idle"]
    /\ held = [p \in Procs |-> -1]
    /\ inv = [p \in Procs |-> "none"]
    /\ response = [p \in Procs |-> NoResponse]
    /\ stopCount = 0
    /\ stopRequested = FALSE
    /\ mapIn = IdleMapIn
    /\ mapOut = NoMapOut
    /\ labelFile = <<<<"cat">>, <<"dog">>>>
    /\ labels = NoLabels
    /\ reqImage = IdleImage
    /\ converted = NotConverted
    /\ channel = 0
    /\ packed = NotPacked

Next ==
    \/ NewSetup \/ NewInterpreter \/ NewSend \/ NewFinish
    \/ ShutdownClose \/ ShutdownReceive
    \/ \E p \in Procs : DetectNormalize(p)
    \/ \E p \in Procs : DetectAcquire(p)
    \/ \E p \in Procs : DetectLoad(p)
    \/ \E p \in Procs : InvokeReturn(p)
    \/ \E p \in Procs : DetectTimeout(p)
    \/ \E p \in Procs : DetectParse(p)
    \/ \E p \in Procs : TfDecode(p)
    \/ \E p \in Procs : TfRun(p)
    \/ \E p \in Procs : DetectRelease(p)

Spec == Init /\ [][Next]_vars

\* Detect calls and New with no Shutdown, under the scheduling Go gives: a
\* goroutine that can run does run, and a timer that was started fires.  Nothing
\* makes Invoke return, a caller call Detect, or New be called.
DetectNext ==
    \/ NewSetup \/ NewInterpreter \/ NewSend \/ NewFinish
    \/ \E p \in Procs : DetectNormalize(p)
    \/ \E p \in Procs : DetectAcquire(p)
    \/ \E p \in Procs : DetectLoad(p)
    \/ \E p \in Procs : InvokeReturn(p)
    \/ \E p \in Procs : DetectTimeout(p)
    \/ \E p \in Procs : DetectParse(p)
    \/ \E p \in Procs : TfDecode(p)
    \/ \E p \in Procs : TfRun(p)
    \/ \E p \in Procs : DetectRelease(p)

Fairness ==
    \A p \in Procs :
        /\ WF_vars(DetectLoad(p))
        /\ WF_vars(DetectTimeout(p))
        /\ WF_vars(DetectParse(p))
        /\ WF_vars(DetectRelease(p))

LiveSpec == Init /\ [][DetectNext]_vars /\ Fairness

\* the detector's own state while one of its sequential parts is run by itself
NoDetector(kind) ==
    /\ cfg = [kind |-> kind, numConcurrent |-> 1, hwAccel |-> FALSE,
              timeout |-> 0, devices |-> 0, inputUInt8 |-> TRUE]
    /\ numConcurrent = 1
    /\ timeout = 0
    /\ poolCap = 0
    /\ pool = <<>>
    /\ poolClosed = FALSE
    /\ newPc = "start"
    /\ x = 0
    /\ interpreter = Nil
    /\ hstate = [h \in Handles |-> "none"]
    /\ deletes = [h \in Handles |-> 0]
    /\ shutPc = "idle"
    /\ pc = [p \in Procs |-> "idle"]
    /\ held = [p \in Procs |-> -1]
    /\ inv = [p \in Procs |-> "none"]
    /\ response = [p \in Procs |-> NoResponse]
    /\ stopCount = 0
    /\ stopRequested = FALSE

\* One run of the result loop of Detect on every request and worker output
\* within the bounds.
Boxes == {<<10, 20, 90, 80>>, <<-5, -5, 105, 105>>, <<105, 105, -5, -5>>}
Candidates == [box : Boxes, class : {1, 2, 3}, score : {499, 500}]
Batches == UNION {[1..n -> Candidates] : n \in 0..MaxCount}
LabelTables ==
    {[i \in {1, 2} |-> IF i = 1 THEN "cat" ELSE "dog"],
     [i \in {1, 2} |-> IF i = 1 THEN "cat" ELSE "*"]}
FilterSpecs == UNION {[D -> {40, 50}] : D \in SUBSET {"cat", "dog", "*"}}
MapInputs ==
    [kind : {"tflite", "tensorflow"}, labels : LabelTables, detect : FilterSpecs,
     batch : Batches, height : {50}, width : {80}]

MapInit ==
    /\ mapIn \in MapInputs
    /\ mapOut = NoMapOut
    /\ NoDetector(mapIn.kind)
    /\ labelFile = <<>>
    /\ labels = NoLabels
    /\ reqImage = IdleImage
    /\ converted = NotConverted
    /\ channel = 0
    /\ packed = NotPacked

\* "Parse results": the buffers, detections := make(...), the loop, the response
MapApply ==
    /\ ~mapOut.done
    /\ mapOut' = [done |-> TRUE, code |-> ParseResults(mapIn).code,
                  detections |-> ParseResults(mapIn).detections]
    /\ UNCHANGED <<cfg, poolVars, newVars, handleVars, shutPc, callVars, stopVars, mapIn>>
    /\ UNCHANGED <<labelFile, labels, reqImage, converted, channel, packed>>

MapNext == MapApply

MapSpec == MapInit /\ [][MapNext]_vars

\* One run of the label loop of New on every label file within the bounds.
LabelLines == {<<"cat">>, <<"dog">>, <<"1", "cat">>, <<"2", "dog">>, <<"x", "stale">>}
LabelFiles == UNION {[1..n -> LabelLines] : n \in 0..MaxLines}

LabelInit ==
    /\ labelFile \in LabelFiles
    /\ labels = NoLabels
    /\ reqImage = IdleImage
    /\ converted = NotConverted
    /\ channel = 0
    /\ packed = NotPacked
    /\ mapIn = IdleMapIn
    /\ mapOut = NoMapOut
    /\ NoDetector("tflite")

\* scanner := bufio.NewScanner(f); for x := 1; scanner.Scan(); x++ { ... }
LabelLoad ==
    /\ ~labels.done
    /\ labels' = [done |-> TRUE, table |-> LoadLabels(labelFile)]
    /\ UNCHANGED <<cfg, poolVars, newVars, handleVars, shutPc, callVars, stopVars>>
    /\ UNCHANGED <<mapIn, mapOut, labelFile, reqImage, converted, channel, packed>>

LabelNext == LabelLoad

LabelSpec == LabelInit /\ [][LabelNext]_vars

\* One run of the decode part of the tensorflow Detect on every image.
ConvertInit ==
    /\ reqImage \in Images
    /\ converted = NotConverted
    /\ channel = 0
    /\ packed = NotPacked
    /\ labelFile = <<>>
    /\ labels = NoLabels
    /\ mapIn = IdleMapIn
    /\ mapOut = NoMapOut
    /\ NoDetector("tensorflow")

ConvertApply ==
    /\ ~converted.done
    /\ converted' = [done |-> TRUE, error |-> Convert(reqImage).error,
                     fallback |-> Convert(reqImage).fallback, op |-> Convert(reqImage).op]
    /\ UNCHANGED <<cfg, poolVars, newVars, handleVars, shutPc, callVars, stopVars>>
    /\ UNCHANGED <<mapIn, mapOut, labelFile, labels, reqImage, channel, packed>>

ConvertNext == ConvertApply

ConvertSpec == ConvertInit /\ [][ConvertNext]_vars

\* One store of the re-packing loop of the tflite Detect on every channel value.
PackInit ==
    /\ channel \in ChannelValues
    /\ packed = NotPacked
    /\ reqImage = IdleImage
    /\ converted = NotConverted
    /\ labelFile = <<>>
    /\ labels = NoLabels
    /\ mapIn = IdleMapIn
    /\ mapOut = NoMapOut
    /\ NoDetector("tflite")

\* data[...] = byte(float64(r) / 255.0)
PackApply ==
    /\ ~packed.done
    /\ \E b \in ByteOf(Quotient(channel)) :
         packed' = [done |-> TRUE, quotient |-> Quotient(channel), value |-> b]
    /\ UNCHANGED <<cfg, poolVars, newVars, handleVars, shutPc, callVars, stopVars>>
    /\ UNCHANGED <<mapIn, mapOut, labelFile, labels, reqImage, converted, channel>>

PackNext == PackApply

PackSpec == PackInit /\ [][PackNext]_vars

\* ------------------------------------------------------------ properties
\* a Detect call is in flight with the local it received from the pool
Holding(p) == pc[p] \in {"load", "wait", "join", "decode", "run", "release"}
Owners(h) == {p \in Procs : Holding(p) /\ held[p] = h}
InPool(h) == Cardinality({i \in 1..Len(pool) : pool[i] = h})
Created == {h \in Handles : hstate[h] /= "none"}
AllReturned == \A p \in Procs : pc[p] \in {"idle", "returned"}

\* C1: every handle has at most one owner at every instant; between New's return
\* and Shutdown it is either in the pool or held by exactly one in-flight Detect,
\* never by two and never both pooled and held, timed out calls included.
C1_OneOwner ==
    \A h \in Created :
        /\ InPool(h) + Cardinality(Owners(h)) <= 1
        /\ (newPc = "done" /\ ~poolClosed) => InPool(h) + Cardinality(Owners(h)) = 1

\* a call has ended by timeout, its handle is pooled again, and another call
\* holds a handle
C1_Witness ==
    \E p, q \in Procs :
        /\ p /= q
        /\ pc[p] = "returned" /\ response[p].code = "Internal"
        /\ InPool(held[p]) = 1
        /\ Holding(q) /\ held[q] \in Handles

\* C2: while Shutdown has not been called, pooled handles plus handles checked
\* out by in-flight Detect calls are the handles New created; when every call has
\* returned, by whatever exit path, the pool holds each created handle once.
C2_PoolConservation ==
    (newPc = "done" /\ ~poolClosed) =>
        /\ Len(pool) + Cardinality({p \in Procs : Holding(p)}) = Cardinality(Created)
        /\ AllReturned =>
              /\ Len(pool) = numConcurrent
              /\ \A h \in Created : InPool(h) = 1

\* every call has returned, one of them by timeout and one with a response, and
\* the pool is open
C2_Witness ==
    /\ newPc = "done" /\ ~poolClosed
    /\ \A p \in Procs : pc[p] = "returned"
    /\ \E p, q \in Procs : response[p].code = "Internal" /\ response[q].code = "OK"
    /\ Len(pool) = Cardinality(Created) /\ pool /= <<>>

\* C3: with a timeout configured and an Invoke that never returns, Detect does
\* not block for ever: the timer fires and Detect returns to its caller with an
\* Internal error, without waiting for the invocation.
C3_TimeoutReturns ==
    \A p \in Procs :
        (pc[p] = "wait" /\ timeout > 0 /\ inv[p] = "hung")
            ~> (pc[p] = "returned" /\ response[p].code = "Internal" /\ inv[p] = "hung")

\* a call has returned Internal while its invocation still hangs
C3_Witness ==
    \E p \in Procs :
        /\ timeout > 0 /\ inv[p] = "hung"
        /\ pc[p] = "returned" /\ response[p].code = "Internal"

\* C4: when Invoke/Run completes with a status that is not OK, and the call did
\* not time out, Detect returns an error to the caller and no detection list.
C4_InferenceFailureIsError ==
    \A p \in Procs :
        (pc[p] = "returned" /\ inv[p] = "Error" /\ response[p].code /= "panic")
            => response[p].code \in {"Internal", "Error"}

\* C5 as stated: with a configured timeout of 0, for every configuration, Detect
\* is still waiting whenever its Invoke has not completed, and never answers by
\* the timeout path.
C5_NoTimeoutConfigured ==
    cfg.timeout = 0 =>
        \A p \in Procs :
            /\ inv[p] \in {"running", "hung"} => pc[p] \in {"wait", "join"}
            /\ response[p].code /= "Internal"

\* C5 amended: the same, for the configurations without hardware acceleration
\* (with it, New replaces a timeout of 0 by 30 seconds).
C5_NoTimeoutInEffect ==
    (cfg.timeout = 0 /\ ~cfg.hwAccel) =>
        \A p \in Procs :
            /\ inv[p] \in {"running", "hung"} => pc[p] \in {"wait", "join"}
            /\ response[p].code /= "Internal"

\* no timeout, no hardware acceleration: a call blocked at <-complete on an
\* invocation that never returns, and another call that returned after its own
C5_Witness ==
    /\ cfg.kind = "tflite" /\ cfg.timeout = 0 /\ ~cfg.hwAccel
    /\ \E p, q \in Procs :
        /\ pc[p] = "join" /\ inv[p] = "hung"
        /\ pc[q] = "returned" /\ inv[q] = "OK" /\ response[q].code = "OK"

\* C6: Shutdown destroys every handle: once Shutdown has finished and the calls
\* in flight have ended, every handle New created was deleted exactly once, and
\* no release after the close failed.
C6_DrainDestroysAll ==
    (shutPc = "done" /\ \A p \in Procs : ~Holding(p)) =>
        /\ \A h \in Created : hstate[h] = "deleted" /\ deletes[h] = 1
        /\ \A p \in Procs : held[p] \in Handles => response[p].code /= "panic"

\* C7: when New fails, every handle it had created has been deleted.
C7_FailedNewReleasesHandles ==
    newPc = "failed" => \A h \in Created : hstate[h] = "deleted"

\* C8: with hardware acceleration, D >= 1 devices and a configured concurrency
\* C >= 1, New is never stuck at the send into the pool, and when it completes
\* it has pooled D handles.
C8_PoolSizeIsDeviceCount ==
    (cfg.kind = "tflite" /\ cfg.hwAccel /\ cfg.devices >= 1 /\ cfg.numConcurrent >= 1) =>
        /\ newPc = "send" => Len(pool) < poolCap
        /\ newPc = "done" => x = cfg.devices /\ Cardinality(Created) = cfg.devices

\* detection j of the output was built from candidate i of the batch
BuiltFrom(j, i) ==
    /\ mapOut.detections[j].Label = LabelOf(mapIn.labels, mapIn.batch[i].class)
    /\ mapOut.detections[j].Confidence = mapIn.batch[i].score * 100
    /\ mapOut.detections[j] = DetectionOf(mapIn, mapIn.batch[i])

\* C9: with an empty filter spec every raw candidate gives exactly one output
\* detection, in the order of the batch; with any filter spec the output is an
\* order-preserving subsequence of the raw candidates.
C9_OrderPreserved ==
    mapOut.done =>
        /\ DOMAIN mapIn.detect = {} =>
              /\ Len(mapOut.detections) = Len(mapIn.batch)
              /\ \A i \in 1..Len(mapIn.batch) : BuiltFrom(i, i)
        /\ \E f \in [1..Len(mapOut.detections) -> 1..Len(mapIn.batch)] :
              /\ \A j \in 1..Len(mapOut.detections) : BuiltFrom(j, f[j])
              /\ \A j, k \in 1..Len(mapOut.detections) : j < k => f[j] < f[k]

\* an empty filter spec and a batch of at least two different candidates, one of
\* them with a class that has no label
C9_Witness ==
    /\ mapOut.done
    /\ DOMAIN mapIn.detect = {}
    /\ Len(mapIn.batch) >= 2
    /\ mapIn.batch[1] /= mapIn.batch[2]
    /\ mapIn.batch[1].class = 3
    /\ Len(mapOut.detections) = Len(mapIn.batch)

\* the candidates of the batch whose score*100 reaches t, in batch order
AtLeast(t) == SelectSeq(mapIn.batch, LAMBDA c : c.score * 100 >= t * 1000)

\* C10: with the filter spec {"*": T} a candidate is in the output if and only
\* if score*100 >= T, whatever its label: score*100 = T is in, less is out.
C10_WildcardThreshold ==
    (mapOut.done /\ DOMAIN mapIn.detect = {"*"}) =>
        /\ Len(mapOut.detections) = Len(AtLeast(mapIn.detect["*"]))
        /\ \A j \in 1..Len(mapOut.detections) :
              mapOut.detections[j] = DetectionOf(mapIn, AtLeast(mapIn.detect["*"])[j])

\* {"*": 50} with a candidate at exactly 50 that is kept and one at 49.9 that
\* is dropped
C10_Witness ==
    /\ mapOut.done
    /\ DOMAIN mapIn.detect = {"*"} /\ mapIn.detect["*"] = 50
    /\ Len(mapIn.batch) = 2
    /\ mapIn.batch[1].score = 499 /\ mapIn.batch[2].score = 500
    /\ Len(mapOut.detections) = 1
    /\ mapOut.detections[1].Confidence = 50000

\* the detections of the candidates of the batch that satisfy Test, in batch order
OutputIs(Test(_)) ==
    LET kept == SelectSeq(mapIn.batch, Test)
    IN  /\ Len(mapOut.detections) = Len(kept)
        /\ \A j \in 1..Len(kept) : mapOut.detections[j] = DetectionOf(mapIn, kept[j])

\* C11: with a filter spec that is not empty and has no wildcard entry, a
\* candidate whose label has no entry is excluded whatever its score, and one
\* whose label L has an entry is included if and only if score*100 >= spec[L].
C11_ListedLabelsOnly ==
    (mapOut.done /\ DOMAIN mapIn.detect /= {} /\ "*" \notin DOMAIN mapIn.detect) =>
        OutputIs(LAMBDA c :
            /\ LabelOf(mapIn.labels, c.class) \in DOMAIN mapIn.detect
            /\ c.score * 100 >= mapIn.detect[LabelOf(mapIn.labels, c.class)] * 1000)

\* {"dog": 50}: a cat at 50.0 is dropped and a dog at 50.0 is kept
C11_Witness ==
    /\ mapOut.done
    /\ DOMAIN mapIn.detect = {"dog"} /\ mapIn.detect["dog"] = 50
    /\ Len(mapIn.batch) = 2
    /\ LabelOf(mapIn.labels, mapIn.batch[1].class) = "cat" /\ mapIn.batch[1].score = 500
    /\ LabelOf(mapIn.labels, mapIn.batch[2].class) = "dog" /\ mapIn.batch[2].score = 500
    /\ Len(mapOut.detections) = 1
    /\ mapOut.detections[1].Label = "dog"

\* {"dog": 50}: a dog at 49.9 is dropped
C11_WitnessBelow ==
    /\ mapOut.done
    /\ DOMAIN mapIn.detect = {"dog"} /\ mapIn.detect["dog"] = 50
    /\ Len(mapIn.batch) = 1
    /\ LabelOf(mapIn.labels, mapIn.batch[1].class) = "dog" /\ mapIn.batch[1].score = 499
    /\ mapOut.detections = <<>>

\* C12: every output box is clipped into the coordinate domain: each of the
\* four coordinates of every detection lies in [0, 1] (tflite: Top, Left,
\* Bottom, Right) or in [0, height] / [0, width] (tensorflow: Y1, Y2 / X1, X2),
\* whatever the raw values were.
C12_BoxesInDomain ==
    mapOut.done =>
        \A j \in 1..Len(mapOut.detections) :
            LET d == mapOut.detections[j]
            IN  IF mapIn.kind = "tflite"
                THEN {d.Top, d.Left, d.Bottom, d.Right} \subseteq 0..100
                ELSE /\ {d.Y1, d.Y2} \subseteq 0..mapIn.height
                     /\ {d.X1, d.X2} \subseteq 0..mapIn.width

\* the well-formed lines of a label file, in file order
RECURSIVE WithoutMalformed(_)
WithoutMalformed(file) ==
    IF file = <<>> THEN <<>>
    ELSE IF Len(Head(file)) = 1 \/ Head(file)[1] \in DOMAIN Atoi
         THEN <<Head(file)>> \o WithoutMalformed(Tail(file))
         ELSE WithoutMalformed(Tail(file))

\* C13 as stated: loading never fails on a malformed line, and the table is the
\* one built from the same lines with the malformed lines removed.
C13_MalformedLinesRemoved ==
    labels.done => labels.table = LoadLabels(WithoutMalformed(labelFile))

\* the lines that write index i: a bare label on line i, or a line "i <label>"
Writers(file, i) ==
    {n \in 1..Len(file) :
        \/ Len(file[n]) = 1 /\ n = i
        \/ Len(file[n]) = 2 /\ file[n][1] \in DOMAIN Atoi /\ Atoi[file[n][1]] = i}

\* the largest element of a non-empty set of numbers
Last(S) == CHOOSE n \in S : \A m \in S : m <= n

\* C13 (amended): loading never fails on a malformed line; a malformed line adds
\* no entry but still counts as a line: the table maps each explicit index to
\* its label and each bare label to its line number in the file, the last line
\* that writes an index deciding its label.
C13_LineNumbersKept ==
    labels.done =>
        /\ DOMAIN labels.table = {i \in 0..(MaxLines + 3) : Writers(labelFile, i) /= {}}
        /\ \A i \in DOMAIN labels.table :
             LET text == labelFile[Last(Writers(labelFile, i))]
             IN  labels.table[i] = text[Len(text)]

\* "1 cat", "dog", "x stale" gives {1: "cat", 2: "dog"}
C13_Witness ==
    /\ labels.done
    /\ labelFile = <<<<"1", "cat">>, <<"dog">>, <<"x", "stale">>>>
    /\ DOMAIN labels.table = {1, 2}
    /\ labels.table[1] = "cat"
    /\ labels.table[2] = "dog"

\* Detect call p ended by timeout and the Invoke it started has not returned
Abandoned(p) == pc[p] = "returned" /\ inv[p] \in {"running", "hung"}

\* another Detect call works with the handle p abandoned
Reused(p) == \E q \in Procs \ {p} : Holding(q) /\ held[q] = held[p]

\* C14: a wedged worker is never reused: once a Detect has ended by timeout, the
\* handle it abandoned is not in the pool, and no other Detect acquires, loads or
\* invokes it while the abandoned invocation is still running.
C14_WedgedWorkerNotReused ==
    \A p \in Procs : Abandoned(p) => (InPool(held[p]) = 0 /\ ~Reused(p))

\* C14, second half alone: no other Detect holds the abandoned handle
C14_NotAcquiredAgain ==
    \A p \in Procs : Abandoned(p) => ~Reused(p)

\* C15: when the filter spec holds both an entry for the candidate's label and
\* the wildcard, only the label's own entry decides; the wildcard threshold is
\* consulted only for labels that have no entry of their own.
C15_ExactBeforeWildcard ==
    (mapOut.done /\ "*" \in DOMAIN mapIn.detect) =>
        OutputIs(LAMBDA c :
            LET label == LabelOf(mapIn.labels, c.class)
            IN  IF label \in DOMAIN mapIn.detect
                THEN c.score * 100 >= mapIn.detect[label] * 1000
                ELSE c.score * 100 >= mapIn.detect["*"] * 1000)

\* {"dog": 50, "*": 40}: a dog at 49.9 is dropped though the wildcard would
\* accept it, and an unlabelled candidate at 49.9 is kept by the wildcard
C15_Witness ==
    /\ mapOut.done
    /\ DOMAIN mapIn.detect = {"dog", "*"}
    /\ mapIn.detect["dog"] = 50 /\ mapIn.detect["*"] = 40
    /\ Len(mapIn.batch) = 2
    /\ LabelOf(mapIn.labels, mapIn.batch[1].class) = "dog" /\ mapIn.batch[1].score = 499
    /\ LabelOf(mapIn.labels, mapIn.batch[2].class) = "" /\ mapIn.batch[2].score = 499
    /\ Len(mapOut.detections) = 1
    /\ mapOut.detections[1].Label = ""

\* C16: the barrier is balanced: conf.Stop's counter is incremented once for each
\* Detect that starts working with a handle and decremented exactly once when
\* that Detect ends, on every exit path; it counts the Detect calls in flight
\* and is back at zero whenever none is in flight. Stated for the calls that
\* received a handle (not the nil of a closed pool).
C16_BarrierBalanced ==
    (cfg.kind = "tflite" /\ \A p \in Procs : held[p] /= Nil) =>
        stopCount = Cardinality({p \in Procs : Holding(p)})

\* the formats the primary codec supports
Supported == {"png", "gif", "jpeg", "bmp"}

\* C17: two-tier decode on the tensorflow backend: whenever the primary codec
\* cannot handle the image (DecodeConfig rejects the bytes or reports a format
\* outside the supported set) Detect tries the fallback raster decoder before it
\* fails, and reports an undecodable image only when the fallback decoder failed
\* too; png, gif, jpeg and bmp go through without the fallback conversion.
C17_TwoTierDecode ==
    converted.done =>
        /\ reqImage.config \notin Supported => converted.fallback
        /\ converted.error = "Could not decode image" =>
               (converted.fallback /\ ~reqImage.imDecode)
        /\ reqImage.config \in Supported => ~converted.fallback

\* C18: in every interleaving of Detect with Shutdown, the handle a Detect loads
\* its input into, invokes or reads is a live handle: no Detect proceeds with
\* the nil it received from the closed pool, and none uses a handle that
\* Shutdown has destroyed.
C18_LiveHandleOnly ==
    \A p \in Procs :
        (Holding(p) \/ inv[p] \in {"running", "hung"}) =>
            (held[p] /= Nil /\ hstate[held[p]] = "live")

\* C18, second half alone: no Invoke runs on a handle that Shutdown has deleted
C18_NoInvokeOnDeleted ==
    \A p \in Procs :
        (inv[p] \in {"running", "hung"} /\ held[p] /= Nil) => hstate[held[p]] = "live"

\* C19: when the worker reports a count of 0 after a successful invocation, the
\* tflite Detect returns a successful response with an empty detection list:
\* every access to the locations, classes and scores buffers is within bounds.
C19_ZeroCountIsEmptySuccess ==
    (mapOut.done /\ mapIn.kind = "tflite" /\ mapIn.batch = <<>>) =>
        (mapOut.code = "OK" /\ mapOut.detections = <<>>)

\* C20: the re-packing stays within 8 bits: for every channel value v in
\* 0..65535 the value v / 255.0 truncated lies in 0..255, so the byte conversion
\* does not overflow, and the brightest input is stored as 255.
C20_PackedFitsByte ==
    packed.done =>
        /\ packed.quotient \in 0..255
        /\ packed.value = packed.quotient
        /\ channel = 65535 => packed.value = 255

====
